---- MODULE Spec2Model ----
(***************************************************************************)
(* A model of torchdiffeq/_impl/odeint.py (odeint, odeint_dense and the    *)
(* dense_output_fn closure) and torchdiffeq/_impl/solvers.py (integrate,   *)
(* integrate_until_event).  Times and state values are small integers; a   *)
(* tensor of times is a sequence.  Python indices are 0-based and are kept *)
(* 0-based in the variables (i, idx); PyIndex translates them.             *)
(***************************************************************************)
EXTENDS Integers, Sequences, FiniteSets, TLC

VARIABLES
    call,           \* the entry point that runs and its arguments
    pc,             \* the position inside it
    t,              \* the local t: the time tensor after _check_inputs
    t_is_reversed,  \* the flag _check_inputs returns
    solution,       \* the local solution tensor, a sequence of rows
    i,              \* the loop index of integrate / odeint_dense
    advanced,       \* the calls made to _advance so far: <<argument, returned row>>
    event_t,        \* odeint's local event_t
    result,         \* what the caller gets: nothing yet, a value, or an exception
    solved,         \* the answers _advance_until_event has given, per direction
    prev,           \* the previous call and its result, when odeint is called twice
    rk_state,       \* solver.rk_state: t0, t1, dt, interp_coeff
    t0,             \* odeint_dense's local t0: the last recorded breakpoint
    times,          \* odeint_dense's list of breakpoints
    interp_coeffs,  \* odeint_dense's list of archived coefficient sets
    n_steps,        \* how many times odeint_dense has called _adaptive_step
    interp,         \* the arguments of odeint_dense's call of _interp_evaluate
    query,          \* the last call of dense_output_fn and what it did
    before_calls    \* how many times the solver's _before_integrate was called

odeintVars == <<call, pc, t, t_is_reversed, solution, i, advanced, event_t, result, solved, prev>>
denseVars == <<rk_state, t0, times, interp_coeffs, n_steps, interp, query>>
vars == <<odeintVars, denseVars, before_calls>>

\* ---------------------------------------------------------------- bounds
MaxT == 1
MaxLen == 3
MaxVal == 1
MaxEventDelay == 1
MaxDt == 2
MaxNumSteps == 2

Times == (0 - MaxT)..MaxT
Vals == 0..MaxVal

\* A row of torch.empty that nothing has written yet.
Uninit == -1

RECURSIVE SeqsUpTo(_, _)
SeqsUpTo(S, n) ==
    IF n = 0 THEN {<<>>}
    ELSE LET shorter == SeqsUpTo(S, n - 1)
         IN  shorter \cup {Append(s, x) : s \in {q \in shorter : Len(q) = n - 1}, x \in S}

TimeSeqs == SeqsUpTo(Times, MaxLen)

\* ---------------------------------------------------------------- helpers
\* len(t)
len(s) == Len(s)

\* The tensors t and -t.
Neg(s) == [k \in 1..Len(s) |-> 0 - s[k]]

\* seq[j] of Python: 0-based, a negative index counts from the end.
PyInRange(s, j) == (0 - Len(s)) <= j /\ j < Len(s)
PyIndex(s, j) == IF j < 0 THEN s[Len(s) + j + 1] ELSE s[j + 1]

\* _check_inputs on t: the times are strictly monotonic in one direction.
StrictlyIncreasing(s) == \A k \in 1..(Len(s) - 1) : s[k] < s[k + 1]
StrictlyDecreasing(s) == \A k \in 1..(Len(s) - 1) : s[k] > s[k + 1]
CheckTimelike(s) == StrictlyIncreasing(s) \/ StrictlyDecreasing(s)

\* _check_inputs: the request is decreasing.
TIsReversed(s) == Len(s) > 1 /\ s[1] > s[2]

\* _check_inputs: the engine works in increasing time.
Normalised(s) == IF TIsReversed(s) THEN Neg(s) ELSE s

NoResult == [kind |-> "pending", event_t |-> 0, solution |-> <<>>]
Raised == [kind |-> "error", event_t |-> 0, solution |-> <<>>]
NoCall == [fn |-> "none"]

\* What _advance_until_event may answer when started at time start:
\* an exception, or an event time at or after start and the state there.
NotAsked == [asked |-> FALSE, ok |-> FALSE, event_time |-> 0, y1 |-> 0]
EventAnswers(start) ==
    {[asked |-> TRUE, ok |-> FALSE, event_time |-> 0, y1 |-> 0]}
    \cup {[asked |-> TRUE, ok |-> TRUE, event_time |-> start + d, y1 |-> v] :
             d \in 0..MaxEventDelay, v \in Vals}

\* ---------------------------------------------------------------- calls
OdeintCalls ==
    {[fn |-> "odeint", y0 |-> y, t |-> s, event_fn |-> e, shapes |-> sh] :
        y \in Vals, s \in TimeSeqs, e \in BOOLEAN, sh \in BOOLEAN}

\* odeint_dense(func, y0, t0, t1, method=..., options={max_num_steps: ...});
\* shapes says that y0 is a tuple of tensors.
DenseCalls ==
    {[fn |-> "odeint_dense", y0 |-> y, t0 |-> a, t1 |-> b, shapes |-> sh,
      method |-> m, max_num_steps |-> n] :
        y \in Vals, a \in Times, b \in Times, sh \in BOOLEAN,
        m \in {"dopri5", "rk4"}, n \in 1..MaxNumSteps}

NoCoeff == [t0 |-> 0, t1 |-> 0]
NoRkState == [t0 |-> 0, t1 |-> 0, dt |-> 0, interp_coeff |-> NoCoeff]
NoInterp == [called |-> FALSE, coeff |-> NoCoeff, t0 |-> 0, t1 |-> 0, t |-> 0]
NoQuery == [asked |-> FALSE, t_eval |-> 0, idx |-> 0, raised |-> "none",
            selected |-> FALSE, k |-> 0, t0 |-> 0, t1 |-> 0, coeff |-> NoCoeff]

Init ==
    /\ call \in OdeintCalls \cup DenseCalls
    /\ rk_state = NoRkState
    /\ t0 = 0
    /\ times = <<>>
    /\ interp_coeffs = <<>>
    /\ n_steps = 0
    /\ interp = NoInterp
    /\ query = NoQuery
    /\ before_calls = 0
    /\ pc = call.fn
    /\ t = <<>>
    /\ t_is_reversed = FALSE
    /\ solution = <<>>
    /\ i = 0
    /\ advanced = <<>>
    /\ event_t = 0
    /\ result = NoResult
    /\ solved = [r \in BOOLEAN |-> NotAsked]
    /\ prev = [call |-> NoCall, result |-> NoResult]

\* An exception leaves the entry point: the caller gets no value.
Raise ==
    /\ pc' = "done"
    /\ result' = Raised

\* ---------------------------------------------------------------- odeint
\* odeint, line 75: _check_inputs.
CheckInputs ==
    /\ UNCHANGED before_calls
    /\ UNCHANGED denseVars
    /\ pc = "odeint"
    /\ IF CheckTimelike(call.t)
       THEN /\ t' = Normalised(call.t)
            /\ t_is_reversed' = TIsReversed(call.t)
            /\ pc' = IF call.event_fn THEN "event" ELSE "integrate"
            /\ UNCHANGED result
       ELSE /\ Raise
            /\ UNCHANGED <<t, t_is_reversed>>
    /\ UNCHANGED <<call, solution, i, advanced, event_t, solved, prev>>

\* ---------------------------------------------------------------- solvers.py
\* integrate, lines 51-52: torch.empty(len(t), ...) with row 0 set to y0.
EmptySolution(n, y0) == [k \in 1..n |-> IF k = 1 THEN y0 ELSE Uninit]

\* integrate, line 56: solution[i] = <row>, i 0-based.
StoreRowBelow(sol, j, row) == [sol EXCEPT ![j] = row]

StoreRow(sol, j, row) == [sol EXCEPT ![j + 1] = row]

\* integrate, lines 51-54: allocate, set row 0, _before_integrate(t).
\* solution[0] = y0 is an IndexError on an empty t; _before_integrate may raise.
IntegrateBegin ==
    /\ UNCHANGED denseVars
    /\ pc = "integrate"
    /\ \/ /\ len(t) > 0
          /\ solution' = EmptySolution(len(t), call.y0)
          /\ before_calls' = before_calls + 1
          /\ i' = 1
          /\ pc' = "advance"
          /\ UNCHANGED result
       \/ /\ Raise
          /\ before_calls' = IF len(t) > 0 THEN before_calls + 1 ELSE before_calls
          /\ UNCHANGED <<solution, i>>
    /\ UNCHANGED <<call, t, t_is_reversed, advanced, event_t, solved, prev>>

\* integrate, line 56, when _advance(t[i]) raises: the exception leaves integrate.
AdvanceRaiseSwallowed ==
    /\ pc' = "shape"
    /\ UNCHANGED result

AdvanceRaises ==
    Raise

\* integrate, line 56: the argument t[i] of _advance.
AdvanceArgPrevious(ts, j) == PyIndex(ts, j - 1)

AdvanceArg(ts, j) == PyIndex(ts, j)

\* integrate, lines 55-56: one turn of the loop.
Advance ==
    /\ UNCHANGED before_calls
    /\ UNCHANGED denseVars
    /\ pc = "advance"
    /\ i < len(t)
    /\ \/ \E row \in Vals :
             /\ solution' = StoreRow(solution, i, row)
             /\ advanced' = Append(advanced, <<AdvanceArg(t, i), row>>)
             /\ i' = i + 1
             /\ UNCHANGED <<pc, result>>
       \/ /\ AdvanceRaises
          /\ UNCHANGED <<solution, advanced, i>>
    /\ UNCHANGED <<call, t, t_is_reversed, event_t, solved, prev>>

\* integrate, line 57, and odeint, line 80: the loop is over, solution is returned.
IntegrateReturn ==
    /\ UNCHANGED before_calls
    /\ UNCHANGED denseVars
    /\ pc = "advance"
    /\ ~(i < len(t))
    /\ pc' = "shape"
    /\ UNCHANGED <<call, t, t_is_reversed, solution, i, advanced, event_t, result,
                   solved, prev>>

\* integrate_until_event, lines 83-85: the pair it returns, given what
\* _advance_until_event answered.
IntegrateUntilEventSwapped(y0, ans) == <<ans.event_time, <<ans.y1, y0>>>>

integrate_until_event(y0, ans) == <<ans.event_time, <<y0, ans.y1>>>>

\* odeint, line 82: solver.integrate_until_event(t[0], event_fn).  t[0] is an
\* IndexError on an empty t.  The solver is a function of func, y0, t[0] and
\* event_fn, which _check_inputs reverses with the direction: asked again for
\* the same direction it answers the same.
IntegrateUntilEvent ==
    /\ UNCHANGED denseVars
    /\ pc = "event"
    /\ before_calls' = IF len(t) = 0 THEN before_calls ELSE before_calls + 1
    /\ IF len(t) = 0
       THEN /\ Raise
            /\ UNCHANGED <<solution, event_t, solved>>
       ELSE \E ans \in EventAnswers(PyIndex(t, 0)) :
              /\ solved[t_is_reversed].asked => ans = solved[t_is_reversed]
              /\ solved' = [solved EXCEPT ![t_is_reversed] = ans]
              /\ IF ans.ok
                 THEN /\ event_t' = integrate_until_event(call.y0, ans)[1]
                      /\ solution' = integrate_until_event(call.y0, ans)[2]
                      /\ pc' = "event_t"
                      /\ UNCHANGED result
                 ELSE /\ Raise
                      /\ UNCHANGED <<solution, event_t>>
    /\ UNCHANGED <<call, t, t_is_reversed, i, advanced, prev>>

\* ---------------------------------------------------------------- odeint, the rest
\* odeint, lines 84-85.
EventTimeNeverNegated(ev, reversed) == ev

EventTimeOut(ev, reversed) == IF reversed THEN 0 - ev ELSE ev

\* odeint, lines 83-85: event_t back in the caller's direction.
OdeintEventTime ==
    /\ UNCHANGED before_calls
    /\ UNCHANGED denseVars
    /\ pc = "event_t"
    /\ event_t' = EventTimeOut(event_t, t_is_reversed)
    /\ pc' = "shape"
    /\ UNCHANGED <<call, t, t_is_reversed, solution, i, advanced, result, solved, prev>>

\* _flat_to_shape(solution, (length,), shapes): a view of the rows as `length`
\* rows per tensor of the tuple; the view exists only for that many rows.
FlatToShapeOk(sol, length) == Len(sol) = length

\* odeint, lines 87-93.
OdeintReturn ==
    /\ UNCHANGED before_calls
    /\ UNCHANGED denseVars
    /\ pc = "shape"
    /\ IF call.shapes /\ ~FlatToShapeOk(solution, len(t))
       THEN Raise
       ELSE /\ pc' = "done"
            /\ result' = [kind |-> IF call.event_fn THEN "event" ELSE "solution",
                          event_t |-> event_t,
                          solution |-> solution]
    /\ UNCHANGED <<call, t, t_is_reversed, solution, i, advanced, event_t, solved, prev>>

\* ---------------------------------------------------------------- the solver
\* Dopri5Solver._before_integrate(t): the state before the first step, with
\* some first step size.
BeforeIntegrate(ts) ==
    {[t0 |-> ts[1], t1 |-> ts[1], dt |-> d, interp_coeff |-> [t0 |-> ts[1], t1 |-> ts[1]]] :
        d \in 1..MaxDt}

\* Dopri5Solver._adaptive_step(rk_state): one trial step of size dt from t1.
\* Accepted, it moves the interval to [t1, t1 + dt], with the coefficients of
\* that interval and any next step size.  Rejected, it leaves the state as it
\* is but for a smaller step size.  A step size that has underflowed is an
\* exception.  A coefficient set is named by the interval of its step.
AdaptiveStep(rk) ==
    IF rk.dt = 0
    THEN {[ok |-> FALSE, rk |-> rk]}
    ELSE {[ok |-> TRUE,
           rk |-> [t0 |-> rk.t1, t1 |-> rk.t1 + rk.dt, dt |-> d,
                   interp_coeff |-> [t0 |-> rk.t1, t1 |-> rk.t1 + rk.dt]]] :
              d \in 1..MaxDt}
         \cup {[ok |-> TRUE, rk |-> [rk EXCEPT !.dt = d]] : d \in 0..(rk.dt - 1)}

\* _interp_evaluate(coefficients, t0, t1, t) requires t0 <= t <= t1.
InterpInRange(a, b, x) == a <= x /\ x <= b

\* ---------------------------------------------------------------- odeint_dense
\* odeint_dense, lines 112-118: the assertions and _check_inputs on [t0, t1].
DenseCheckInputs ==
    /\ UNCHANGED before_calls
    /\ pc = "odeint_dense"
    /\ IF ~call.shapes /\ CheckTimelike(<<call.t0, call.t1>>) /\ call.method = "dopri5"
       THEN /\ t' = Normalised(<<call.t0, call.t1>>)
            /\ t_is_reversed' = TIsReversed(<<call.t0, call.t1>>)
            /\ pc' = "before"
            /\ UNCHANGED result
       ELSE /\ Raise
            /\ UNCHANGED <<t, t_is_reversed>>
    /\ UNCHANGED <<call, solution, i, advanced, event_t, solved, prev, denseVars>>

\* odeint_dense, line 129: times = [t0].
InitialTimesEmpty(first) == <<>>

InitialTimes(first) == <<first>>

\* odeint_dense, lines 120-130: the solver, row 0, _before_integrate, the
\* archive with its first breakpoint.
DenseBegin ==
    /\ pc = "before"
    /\ before_calls' = before_calls + 1
    /\ \/ /\ solution' = EmptySolution(len(t), call.y0)
          /\ rk_state' \in BeforeIntegrate(t)
          /\ t0' = rk_state'.t0
          /\ times' = InitialTimes(rk_state'.t0)
          /\ interp_coeffs' = <<>>
          /\ i' = 1
          /\ pc' = "loop"
          /\ UNCHANGED result
       \/ /\ Raise
          /\ UNCHANGED <<solution, rk_state, t0, times, interp_coeffs, i>>
    /\ UNCHANGED <<call, t, t_is_reversed, advanced, event_t, solved, prev,
                   n_steps, interp, query>>

\* odeint_dense, line 134: the condition of the while loop.
KeepSteppingNever(next_t, rk) == FALSE

KeepSteppingInverted(next_t, rk) == next_t < rk.t1

KeepStepping(next_t, rk) == next_t > rk.t1

\* odeint_dense, line 138: the step counts as accepted.
StepAcceptedAlways(new_t1, last) == TRUE

StepAcceptedNever(new_t1, last) == FALSE

StepAccepted(new_t1, last) == new_t1 # last

\* odeint_dense, line 142: the coefficient set that is archived, read from
\* the state the step returned.
ArchivedCoeffStale(rk) == rk_state.interp_coeff

ArchivedCoeff(rk) == rk.interp_coeff

\* odeint_dense, lines 134-142: one turn of the while loop.
DenseStep ==
    /\ UNCHANGED before_calls
    /\ pc = "loop"
    /\ i < len(t)
    /\ KeepStepping(PyIndex(t, i), rk_state)
    /\ n_steps' = n_steps + 1
    /\ \E out \in AdaptiveStep(rk_state) :
          IF out.ok
          THEN /\ rk_state' = out.rk
               /\ IF StepAccepted(out.rk.t1, t0)
                  THEN /\ t0' = out.rk.t1
                       /\ times' = Append(times, out.rk.t1)
                       /\ interp_coeffs' = Append(interp_coeffs, ArchivedCoeff(out.rk))
                  ELSE UNCHANGED <<t0, times, interp_coeffs>>
               /\ UNCHANGED <<pc, result>>
          ELSE /\ Raise
               /\ UNCHANGED <<rk_state, t0, times, interp_coeffs>>
    /\ UNCHANGED <<call, t, t_is_reversed, solution, i, advanced, event_t, solved, prev,
                   interp, query>>

\* odeint_dense, line 144: the loop is left, the row of t[i] is interpolated.
DenseInterp ==
    /\ UNCHANGED before_calls
    /\ pc = "loop"
    /\ i < len(t)
    /\ ~KeepStepping(PyIndex(t, i), rk_state)
    /\ interp' = [called |-> TRUE, coeff |-> rk_state.interp_coeff,
                  t0 |-> rk_state.t0, t1 |-> rk_state.t1, t |-> PyIndex(t, i)]
    /\ IF InterpInRange(rk_state.t0, rk_state.t1, PyIndex(t, i))
       THEN /\ \E row \in Vals : solution' = StoreRow(solution, i, row)
            /\ i' = i + 1
            /\ UNCHANGED <<pc, result>>
       ELSE /\ Raise
            /\ UNCHANGED <<solution, i>>
    /\ UNCHANGED <<call, t, t_is_reversed, advanced, event_t, solved, prev,
                   rk_state, t0, times, interp_coeffs, n_steps, query>>

\* odeint_dense, lines 146-165: the archive is stacked (torch.stack raises on
\* an empty list) and the closure over it is returned.
DenseReturn ==
    /\ UNCHANGED before_calls
    /\ pc = "loop"
    /\ ~(i < len(t))
    /\ IF interp_coeffs = <<>>
       THEN Raise
       ELSE /\ pc' = "returned"
            /\ result' = [kind |-> "dense_output_fn", event_t |-> 0, solution |-> <<>>]
    /\ UNCHANGED <<call, t, t_is_reversed, solution, i, advanced, event_t, solved, prev,
                   denseVars>>

\* ---------------------------------------------------------------- dense_output_fn
\* torch.searchsorted(times, v, side="right") on sorted times: the number of
\* breakpoints <= v.
searchsorted(ts, v) == Cardinality({k \in 1..Len(ts) : ts[k] <= v})

\* dense_output_fn(t_eval), lines 159-163, statement by statement.
DenseOutputFn(ts, coeffs, t_eval) ==
    LET idx == searchsorted(ts, t_eval)
        q == [NoQuery EXCEPT !.asked = TRUE, !.t_eval = t_eval, !.idx = idx]
    IN  IF ~PyInRange(ts, idx - 1)
        THEN [q EXCEPT !.raised = "IndexError"]
        ELSE IF ~PyInRange(ts, idx)
        THEN [q EXCEPT !.raised = "IndexError", !.t0 = PyIndex(ts, idx - 1)]
        ELSE IF ~PyInRange(coeffs, idx - 1)
        THEN [q EXCEPT !.raised = "IndexError", !.t0 = PyIndex(ts, idx - 1),
                       !.t1 = PyIndex(ts, idx)]
        ELSE LET a == PyIndex(ts, idx - 1)
                 b == PyIndex(ts, idx)
                 done == [q EXCEPT !.t0 = a, !.t1 = b, !.selected = TRUE, !.k = idx - 1,
                                   !.coeff = PyIndex(coeffs, idx - 1)]
             IN  IF InterpInRange(a, b, t_eval)
                 THEN done
                 ELSE [done EXCEPT !.raised = "OutOfInterpolationRange"]

QueryTimes == (0 - MaxT - 1)..(MaxT + MaxDt)

\* A call of the returned function.
QueryConsuming ==
    /\ UNCHANGED before_calls
    /\ pc = "returned"
    /\ \E t_eval \in QueryTimes :
          LET q == DenseOutputFn(times, interp_coeffs, t_eval)
              from == IF q.selected /\ q.k > 0 THEN q.k + 1 ELSE 1
          IN  /\ query' = q
              /\ times' = SubSeq(times, from, Len(times))
              /\ interp_coeffs' = SubSeq(interp_coeffs, from, Len(interp_coeffs))
    /\ UNCHANGED <<odeintVars, rk_state, t0, n_steps, interp>>

Query ==
    /\ UNCHANGED before_calls
    /\ pc = "returned"
    /\ \E t_eval \in QueryTimes : query' = DenseOutputFn(times, interp_coeffs, t_eval)
    /\ UNCHANGED <<odeintVars, rk_state, t0, times, interp_coeffs, n_steps, interp>>

\* odeint called a second time with the same func, y0, event_fn and t[0], and
\* other later elements of t.
CallAgain ==
    /\ UNCHANGED denseVars
    /\ pc = "done"
    /\ prev.call = NoCall
    /\ call.fn = "odeint"
    /\ call.event_fn
    /\ len(call.t) > 0
    /\ \E s \in TimeSeqs :
          /\ len(s) > 0
          /\ s[1] = call.t[1]
          /\ s # call.t
          /\ call' = [call EXCEPT !.t = s]
    /\ prev' = [call |-> call, result |-> result]
    /\ pc' = "odeint"
    /\ t' = <<>>
    /\ t_is_reversed' = FALSE
    /\ solution' = <<>>
    /\ i' = 0
    /\ advanced' = <<>>
    /\ event_t' = 0
    /\ result' = NoResult
    /\ before_calls' = 0
    /\ UNCHANGED solved

Next ==
    \/ CheckInputs
    \/ IntegrateBegin
    \/ Advance
    \/ IntegrateReturn
    \/ IntegrateUntilEvent
    \/ OdeintEventTime
    \/ OdeintReturn
    \/ DenseCheckInputs
    \/ DenseBegin
    \/ DenseStep
    \/ DenseInterp
    \/ DenseReturn
    \/ Query

Spec == Init /\ [][Next]_vars

\* The same program, run to its end: odeint_dense is sequential code, so a
\* statement that can run does run.
SpecFair ==
    /\ Spec
    /\ WF_vars(DenseStep)
    /\ WF_vars(DenseInterp)
    /\ WF_vars(DenseReturn)

\* The same program, with odeint called twice in event mode.
NextTwoCalls == Next \/ CallAgain

SpecTwoCalls == Init /\ [][NextTwoCalls]_vars

\* ---------------------------------------------------------------- properties
\* The answer _advance_until_event gave to the running call.
Answer == solved[t_is_reversed]

\* C1: when integrate(t) returns, solution has len(t) rows, row 0 is y0, and
\* row i (i >= 1) is what the i-th call of _advance returned, which was the
\* call _advance(t[i]); there was no other call.
C1_IntegrateRows ==
    (pc = "shape" /\ call.fn = "odeint" /\ ~call.event_fn) =>
        /\ Len(solution) = len(call.t)
        /\ solution[1] = call.y0
        /\ Len(advanced) = len(call.t) - 1
        /\ \A k \in 2..Len(solution) :
              /\ advanced[k - 1][1] = t[k]
              /\ solution[k] = advanced[k - 1][2]

C1_Witness ==
    /\ pc = "shape" /\ call.fn = "odeint" /\ ~call.event_fn
    /\ Len(solution) >= 3
    /\ solution[2] # solution[3]
    /\ solution[1] # solution[2]

\* C2: every query at t_eval with t0 <= t_eval <= t1 returns a value, from an
\* archived interval k with times[k] <= t_eval <= times[k+1] and with the
\* coefficients of that interval.
C2_QueryInRangeWorks ==
    (query.asked /\ call.t0 <= query.t_eval /\ query.t_eval <= call.t1) =>
        /\ query.raised = "none"
        /\ query.selected
        /\ 0 <= query.k /\ query.k < Len(interp_coeffs)
        /\ times[query.k + 1] <= query.t_eval
        /\ query.t_eval <= times[query.k + 2]
        /\ query.coeff = interp_coeffs[query.k + 1]

\* C3: the recorded breakpoints are strictly increasing at every point of
\* odeint_dense's loop.
C3_TimesStrictlyIncreasing ==
    call.fn = "odeint_dense" => StrictlyIncreasing(times)

C3_Witness ==
    /\ call.fn = "odeint_dense"
    /\ Len(times) >= 3
    /\ n_steps > Len(times) - 1

\* C4: a query before the first or after the last breakpoint raises, and
\* selects no archived coefficient set on the way.
C4_OutOfRangeIsError ==
    (query.asked /\ (query.t_eval < times[1] \/ query.t_eval > times[Len(times)])) =>
        /\ query.raised # "none"
        /\ ~query.selected

\* C5: integrate_until_event returns the two rows y0 and the state that
\* _advance_until_event returned, and the event time of that same answer.
C5_EventTrajectoryOfTwo ==
    pc = "event_t" =>
        /\ Len(solution) = 2
        /\ solution[1] = call.y0
        /\ solution[2] = Answer.y1
        /\ event_t = Answer.event_time

C5_Witness ==
    /\ pc = "event_t"
    /\ solution[1] # solution[2]
    /\ event_t # 0

\* C6: odeint_dense calls _adaptive_step at most max_num_steps times.
C6_StepsCapped ==
    call.fn = "odeint_dense" => n_steps <= call.max_num_steps

\* C7: two event-mode calls of odeint that differ only in t[1:], each with a
\* strictly monotonic t, end the same: both raise, or both return the same
\* event time and the same solution.
C7_LaterTimesIgnored ==
    (pc = "done" /\ prev.call.fn = "odeint"
        /\ CheckTimelike(call.t) /\ CheckTimelike(prev.call.t)) =>
        /\ result.kind = prev.result.kind
        /\ result.event_t = prev.result.event_t
        /\ result.solution = prev.result.solution

C9_NoPartialResult ==
    (call.fn = "odeint" /\ ~call.event_fn) =>
        /\ (pc = "shape" \/ result.kind = "solution") =>
              /\ i = len(t)
              /\ Len(advanced) = len(t) - 1
              /\ \A k \in 1..Len(solution) : solution[k] # Uninit
        /\ result.kind = "solution" => result.solution = solution
        /\ (pc = "done" /\ i < len(t)) =>
              /\ result.kind = "error"
              /\ result.solution = <<>>

C9_Witness ==
    /\ call.fn = "odeint" /\ ~call.event_fn
    /\ result.kind = "error"
    /\ Len(advanced) >= 1
    /\ \E k \in 1..Len(solution) : solution[k] = Uninit

\* C10: when odeint_dense interpolates the row of t[i], the solver's interval
\* brackets t[i] and the coefficients are those of the last accepted step,
\* the step of that interval.
C10_InterpBracketed ==
    interp.called =>
        /\ interp.t0 <= interp.t /\ interp.t <= interp.t1
        /\ interp.t0 < interp.t1
        /\ interp.coeff = [t0 |-> interp.t0, t1 |-> interp.t1]
        /\ interp_coeffs # <<>>
        /\ interp.coeff = interp_coeffs[Len(interp_coeffs)]
        /\ interp.t1 = times[Len(times)]

C10_Witness ==
    /\ interp.called
    /\ Len(interp_coeffs) >= 2
    /\ n_steps > Len(interp_coeffs)
    /\ interp.t < interp.t1

\* C11: a call of _adaptive_step that leaves rk_state.t1 as it was leaves
\* times and interp_coeffs as they were; one that moves t1 appends that t1 to
\* times and the step's coefficient set to interp_coeffs, and changes nothing
\* else of them.
C11_RejectedStepKeepsArchive ==
    [][n_steps' = n_steps + 1 =>
          IF rk_state'.t1 = rk_state.t1
          THEN times' = times /\ interp_coeffs' = interp_coeffs
          ELSE /\ times' = Append(times, rk_state'.t1)
               /\ interp_coeffs' = Append(interp_coeffs, rk_state'.interp_coeff)]_vars

C11_Witness ==
    /\ call.fn = "odeint_dense"
    /\ pc = "loop"
    /\ Len(times) = 2
    /\ n_steps >= 2
    /\ rk_state.dt = 0

\* C12: integrate calls _before_integrate once, before any _advance, and then
\* _advance once per requested time, for t[1], t[2], ... in that order: the
\* k-th call is _advance(t[k]), and t[0] is never advanced to.
C12_TimesConsumedInOrder ==
    (call.fn = "odeint" /\ ~call.event_fn) =>
        /\ before_calls <= 1
        /\ pc \in {"advance", "shape"} => before_calls = 1
        /\ advanced # <<>> => before_calls = 1
        /\ advanced # <<>> => Len(advanced) <= len(t) - 1
        /\ pc = "advance" => Len(advanced) = i - 1
        /\ \A k \in 1..Len(advanced) : advanced[k][1] = PyIndex(t, k)

C12_Witness ==
    /\ call.fn = "odeint" /\ ~call.event_fn
    /\ pc = "advance"
    /\ Len(advanced) = 2
    /\ before_calls = 1

\* C13: once in its loop, odeint_dense ends: it returns its query function
\* with rk_state.t1 at or past the requested end time, or, when the attempts
\* keep being rejected, the step size underflows and the call raises.
C13_DenseLoopEnds ==
    (call.fn = "odeint_dense" /\ pc = "loop") ~>
        \/ pc = "returned" /\ result.kind = "dense_output_fn"
                           /\ rk_state.t1 >= PyIndex(t, 1)
        \/ pc = "done" /\ result.kind = "error" /\ rk_state.dt = 0

C13_Witness ==
    /\ pc = "returned"
    /\ n_steps >= 3
    /\ n_steps > Len(interp_coeffs)
    /\ rk_state.t1 > PyIndex(t, 1)

\* C14: at every point of odeint_dense's loop and after it, times holds one
\* more entry than interp_coeffs, and the k-th coefficient set is the one of
\* the accepted step over [times[k], times[k+1]].
C14_ArchiveAligned ==
    (call.fn = "odeint_dense" /\ pc \in {"loop", "returned"}) =>
        /\ Len(times) = Len(interp_coeffs) + 1
        /\ \A k \in 1..Len(interp_coeffs) :
              /\ interp_coeffs[k].t0 = times[k]
              /\ interp_coeffs[k].t1 = times[k + 1]

C14_Witness ==
    /\ call.fn = "odeint_dense"
    /\ pc = "loop"
    /\ Len(interp_coeffs) = 2
    /\ n_steps > 2

C16_QueriesReadOnly ==
    [][pc = "returned" =>
          /\ times' = times
          /\ interp_coeffs' = interp_coeffs
          /\ query'.asked => query' = DenseOutputFn(times, interp_coeffs, query'.t_eval)]_vars

C16_Witness ==
    /\ query.asked
    /\ query.raised = "none"
    /\ query.k = 0
    /\ Len(interp_coeffs) = 2
    /\ query.t_eval < times[2]
====
